---- MODULE Spec2Model ----
(***************************************************************************)
(* Medical Symptom Assistant: the diagnosis request (name resolution, the  *)
(* SQL function diagnose(), recommendation attachment, response            *)
(* formatting) and the precaution loader, over the PostgreSQL catalog.     *)
(*                                                                         *)
(* Strings are sequences of one-character strings, so that strip() and     *)
(* lower() are computed and not assumed.                                   *)
(***************************************************************************)
EXTENDS Integers, Sequences, FiniteSets, TLC

VARIABLES
    symptoms,          \* table symptoms: set of rows [id, name, severity_weight]
    diseases,          \* table diseases: set of rows [id, name, description]
    disease_symptoms,  \* table disease_symptoms: set of rows [id, disease_id, symptom_id, weight]
    recommendations,   \* table recommendations: sequence of rows, in insertion order
    version,           \* number of catalog commits so far (history variable)
    loads,             \* number of load_precautions() runs so far
    request,           \* DiagnoseRequest.symptom_names of the request being served
    pc,                \* position of diagnose_symptoms
    symptom_ids,       \* get_symptom_ids: resolved ids, a list
    matched_symptoms,  \* get_symptom_ids: matched canonical names, a list
    rows,              \* perform_diagnosis: cursor.fetchall() of SELECT * FROM diagnose(..)
    results,           \* perform_diagnosis: the list being built
    reads,             \* catalog version seen by each read of the current diagnose call
    response,          \* the DiagnoseResponse returned, or NoResponse
    history,           \* completed perform_diagnosis calls: [ids, results, reads]
    nreq,              \* number of requests received so far
    failed,            \* a storage call of the request being served has raised
    open,              \* storage handles opened by the service and not closed
    seqs,              \* last value of the SERIAL sequence of each table
    runs,              \* number of load_symptoms and load_diseases_and_relationships runs
    schema             \* the relations of the database and the run of init_db

vars == <<symptoms, diseases, disease_symptoms, recommendations, version, loads,
          request, pc, symptom_ids, matched_symptoms, rows, results, reads,
          response, history, nreq, failed, open, seqs, runs, schema>>

catalogVars == <<symptoms, diseases, disease_symptoms, recommendations, version, loads,
                 seqs, runs, schema>>

dataVars == <<symptoms, diseases, disease_symptoms, recommendations, version, loads,
              seqs, runs>>

requestVars == <<request, pc, symptom_ids, matched_symptoms, rows, results, reads,
                 response, history, nreq, failed, open>>

-----------------------------------------------------------------------------
(* Bounds *)

MaxSymptom == 2      \* symptoms of a generated catalog
MaxDisease == 2      \* diseases of a generated catalog
MaxNames == 2        \* longest generated symptom_names list
MaxRequests == 2     \* requests served in one behaviour
MaxLoads == 1        \* runs of load_precautions in one behaviour
MaxRuns == 4         \* runs of load_symptoms and load_diseases_and_relationships
CrowdSize == 11      \* diseases of the crowded catalog

-----------------------------------------------------------------------------
(* Strings *)

Lowers == <<"a", "b", "c", "d", "e", "f", "g", "h", "i", "j", "k", "l", "m">>
Uppers == <<"A", "B", "C", "D", "E", "F", "G", "H", "I", "J", "K", "L", "M">>
Whitespace == {" ", "\t"}

\* str.lower() on one character
LowerChar(c) ==
    IF \E i \in DOMAIN Uppers : Uppers[i] = c
    THEN Lowers[CHOOSE i \in DOMAIN Uppers : Uppers[i] = c]
    ELSE c

\* str.lower(), SQL LOWER()
Lower(s) == [i \in DOMAIN s |-> LowerChar(s[i])]

RECURSIVE LStrip(_)
LStrip(s) == IF s # <<>> /\ Head(s) \in Whitespace THEN LStrip(Tail(s)) ELSE s

RECURSIVE RStrip(_)
RStrip(s) ==
    IF s # <<>> /\ s[Len(s)] \in Whitespace
    THEN RStrip(SubSeq(s, 1, Len(s) - 1))
    ELSE s

\* str.strip()
Strip(s) == RStrip(LStrip(s))

\* what a client may type for a stored name: another case, padding
Capitalized(s) ==
    [i \in DOMAIN s |->
        IF i = 1 /\ \E k \in DOMAIN Lowers : Lowers[k] = s[i]
        THEN Uppers[CHOOSE k \in DOMAIN Lowers : Lowers[k] = s[i]]
        ELSE s[i]]

Padded(s) == <<" ">> \o s \o <<" ", "\t">>

-----------------------------------------------------------------------------
(* Catalogs the service starts from *)

SymptomRow(i, n) == [id |-> i, name |-> n, severity_weight |-> 5]
DiseaseRow(i, n) == [id |-> i, name |-> n, description |-> "NULL"]
\* a row of disease_symptoms; the rows of an initial catalog have the ids 100 d + s
AssocRow(i, d, s) == [id |-> i, disease_id |-> d, symptom_id |-> s, weight |-> 1]
Assoc(d, s) == AssocRow(100 * d + s, d, s)

LetterName(i) == <<Lowers[i]>>
DiseaseName(i) == <<"D", Lowers[i]>>

\* every catalog of MaxDisease diseases over MaxSymptom symptoms
GeneratedCatalogs ==
    { [symptoms |-> {SymptomRow(i, LetterName(i)) : i \in 1..MaxSymptom},
       diseases |-> {DiseaseRow(d, DiseaseName(d)) : d \in 1..MaxDisease},
       disease_symptoms |-> {Assoc(p[1], p[2]) : p \in ps},
       names |-> {LetterName(i) : i \in 1..MaxSymptom}
                 \cup {Capitalized(LetterName(1)), Padded(LetterName(1)),
                       LetterName(1) \o LetterName(2)},
       queries |-> {}]
      : ps \in SUBSET ((1..MaxDisease) \X (1..MaxSymptom)) }

fever == <<"f", "e", "v", "e", "r">>
headache == <<"h", "e", "a", "d", "a", "c", "h", "e">>
cough == <<"c", "o", "u", "g", "h">>
fatigue == <<"f", "a", "t", "i", "g", "u", "e">>
CommonCold == <<"C", "o", "m", "m", "o", "n", " ", "C", "o", "l", "d">>
Flu == <<"F", "l", "u">>
Migraine == <<"M", "i", "g", "r", "a", "i", "n", "e">>

\* Scenario A of the testable properties; the query is the one of test_diagnose
ScenarioA ==
    [symptoms |-> {SymptomRow(1, fever), SymptomRow(2, headache),
                   SymptomRow(3, cough), SymptomRow(4, fatigue)},
     diseases |-> {DiseaseRow(1, CommonCold), DiseaseRow(2, Flu), DiseaseRow(3, Migraine)},
     disease_symptoms |-> {Assoc(1, 1), Assoc(1, 3), Assoc(1, 4),
                           Assoc(2, 1), Assoc(2, 2), Assoc(2, 3), Assoc(2, 4),
                           Assoc(3, 2)},
     names |-> {fever, fatigue, Capitalized(fever), Padded(fever), <<"f", "e", "v">>},
     queries |-> {<<fever, headache, cough>>}]

CrowdSymptoms == 8

\* disease k has the symptoms 1..k, and past CrowdSymptoms the symptoms (k - CrowdSymptoms + 1)..CrowdSymptoms
CrowdProfile(k) ==
    IF k <= CrowdSymptoms THEN 1..k ELSE (k - CrowdSymptoms + 1)..CrowdSymptoms

\* a catalog in which more than LIMIT diseases overlap one query
Crowd ==
    [symptoms |-> {SymptomRow(i, LetterName(i)) : i \in 1..CrowdSymptoms},
     diseases |-> {DiseaseRow(d, DiseaseName(d)) : d \in 1..CrowdSize},
     disease_symptoms |-> UNION {{Assoc(d, s) : s \in CrowdProfile(d)} : d \in 1..CrowdSize},
     names |-> {LetterName(1), LetterName(CrowdSymptoms)},
     queries |-> {<<LetterName(1), LetterName(2), LetterName(3)>>}]

InitialCatalogs == GeneratedCatalogs \cup {ScenarioA, Crowd}

\* the symptom_names lists a client sends: min_items = 1
NameLists(c) ==
    UNION {[1..n -> c.names] : n \in 1..MaxNames} \cup c.queries

-----------------------------------------------------------------------------
(* SQL values *)

Null == <<>>                 \* SQL NULL, Python None
Some(x) == <<x>>             \* a value that is not NULL

\* NULLIF(a, b) on integers
NullIf(a, b) == IF a = b THEN Null ELSE Some(a)

\* a::FLOAT / b: the quotient as a fraction; NULL when the divisor is NULL
FloatDiv(a, b) == IF b = Null THEN Null ELSE Some([num |-> a, den |-> b[1]])

\* q * 100
TimesHundred(q) ==
    IF q = Null THEN Null ELSE Some([num |-> q[1].num * 100, den |-> q[1].den])

\* variant: the cast truncates, as int() does in Python
RoundTruncate(num, den) == num \div den

\* float8 -> integer of a non-negative value: rint(), nearest integer, halves to even.
\* (m / t) * 100 in float8 equals the exact quotient to within an ulp, and the
\* half-way quotients with t < 40 are exact in float8, so rounding the exact
\* fraction is what the cast computes for every profile of fewer than 40 symptoms.
RoundHalfEven(num, den) ==
    LET q == num \div den
        r == num % den
    IN  IF 2 * r < den THEN q
        ELSE IF 2 * r > den THEN q + 1
        ELSE IF q % 2 = 0 THEN q ELSE q + 1

\* CAST(q AS INTEGER)
CastInteger(q) == IF q = Null THEN Null ELSE Some(RoundHalfEven(q[1].num, q[1].den))

-----------------------------------------------------------------------------
(* The SQL function diagnose(symptom_ids) *)

Limit == 10

\* variant: the comparison with the first element of the array alone
EqFirst(ids, x) == ids # <<>> /\ ids[1] = x

\* WHERE ds.symptom_id = ANY(symptom_ids)
EqAny(ids, x) == \E i \in DOMAIN ids : ids[i] = x

\* the rows of d INNER JOIN disease_symptoms kept by the WHERE clause, for disease d
JoinedRows(d, ids) ==
    {ds \in disease_symptoms : ds.disease_id = d.id /\ EqAny(ids, ds.symptom_id)}

\* SUM(weight) over a set of disease_symptoms rows
RECURSIVE SumWeight(_)
SumWeight(S) ==
    IF S = {} THEN 0
    ELSE LET x == CHOOSE y \in S : TRUE
         IN  x.weight + SumWeight(S \ {x})

\* variant: SUM(ds.weight) in place of the count
MatchCountWeighted(d, ids) == SumWeight(JoinedRows(d, ids))

\* variant: COUNT(*) over a join that has one row per element of symptom_ids
MatchCountPerElement(d, ids) ==
    Cardinality({i \in DOMAIN ids :
                    \E ds \in disease_symptoms :
                        ds.disease_id = d.id /\ ds.symptom_id = ids[i]})

\* COUNT(DISTINCT ds.symptom_id) over the group of d
MatchCount(d, ids) == Cardinality({ds.symptom_id : ds \in JoinedRows(d, ids)})

\* (SELECT COUNT(*) FROM disease_symptoms ds2 WHERE ds2.disease_id = d.id)
TotalSymptoms(d) == Cardinality({ds \in disease_symptoms : ds.disease_id = d.id})

\* variant: the quotient upside down
ConfidenceScoreInverted(m, t) == CastInteger(TimesHundred(FloatDiv(t, NullIf(m, 0))))

\* CAST((match::FLOAT / NULLIF(total, 0)) * 100 AS INTEGER)
ConfidenceScore(m, t) == CastInteger(TimesHundred(FloatDiv(m, NullIf(t, 0))))

\* one output row of the SELECT list
DiagnoseRow(d, ids) ==
    [disease_id |-> d.id,
     disease_name |-> d.name,
     description |-> d.description,
     match_count |-> MatchCount(d, ids),
     total_symptoms |-> TotalSymptoms(d),
     confidence_score |-> ConfidenceScore(MatchCount(d, ids), TotalSymptoms(d))]

\* variant: LEFT JOIN with the filter in the ON clause and no HAVING
GroupsLeftJoin(ids) == {DiagnoseRow(d, ids) : d \in diseases}

\* FROM .. INNER JOIN .. WHERE .. GROUP BY d.id, d.name, d.description HAVING COUNT(DISTINCT ..) > 0
Groups(ids) ==
    {DiagnoseRow(d, ids) : d \in {x \in diseases : JoinedRows(x, ids) # {} /\ MatchCount(x, ids) > 0}}

\* variant: ORDER BY 6 DESC alone
SortsBeforeConfidenceOnly(a, b) ==
    \/ a.confidence_score = Null /\ b.confidence_score # Null
    \/ /\ a.confidence_score # Null
       /\ b.confidence_score # Null
       /\ a.confidence_score[1] > b.confidence_score[1]

\* variant: ORDER BY 6, 4 without DESC
SortsBeforeAscending(a, b) ==
    \/ a.confidence_score # Null /\ b.confidence_score = Null
    \/ /\ a.confidence_score # Null
       /\ b.confidence_score # Null
       /\ \/ a.confidence_score[1] < b.confidence_score[1]
          \/ /\ a.confidence_score[1] = b.confidence_score[1]
             /\ a.match_count < b.match_count

\* ORDER BY 6 DESC, 4 DESC: a sorts strictly before b; NULL sorts first under DESC
SortsBefore(a, b) ==
    \/ a.confidence_score = Null /\ b.confidence_score # Null
    \/ /\ a.confidence_score # Null
       /\ b.confidence_score # Null
       /\ \/ a.confidence_score[1] > b.confidence_score[1]
          \/ /\ a.confidence_score[1] = b.confidence_score[1]
             /\ a.match_count > b.match_count
    \/ /\ a.confidence_score = Null
       /\ b.confidence_score = Null
       /\ a.match_count > b.match_count

\* the rows that may come first: no other row sorts strictly before them
Firsts(S) == {a \in S : \A b \in S : ~SortsBefore(b, a)}

\* ORDER BY .. LIMIT n: every sequence the executor may return; rows equal on
\* both sort keys come in any order
RECURSIVE OrderedLimit(_, _)
OrderedLimit(S, n) ==
    IF n = 0 \/ S = {} THEN {<<>>}
    ELSE UNION {{<<a>> \o rest : rest \in OrderedLimit(S \ {a}, n - 1)} : a \in Firsts(S)}

\* variant: LIMIT applied to the grouped rows before ORDER BY
DiagnoseLimitFirst(ids) ==
    UNION {OrderedLimit(T, Limit) :
              T \in {U \in SUBSET Groups(ids) :
                        Cardinality(U) = IF Cardinality(Groups(ids)) < Limit
                                         THEN Cardinality(Groups(ids)) ELSE Limit}}

\* variant: the query without LIMIT
DiagnoseNoLimit(ids) == OrderedLimit(Groups(ids), Cardinality(Groups(ids)))

\* SELECT * FROM diagnose(symptom_ids): the possible results on the current tables
Diagnose(ids) == OrderedLimit(Groups(ids), Limit)

-----------------------------------------------------------------------------
(* Service layer *)

\* variant: a name that resolves to an id already in the list is skipped
RECURSIVE ResolveUnique(_, _)
ResolveUnique(symptom_names, seen) ==
    IF symptom_names = <<>> THEN {[ids |-> <<>>, matched |-> <<>>]}
    ELSE LET symptom_clean == Lower(Strip(Head(symptom_names)))
             found == {s \in symptoms : Lower(s.name) = symptom_clean /\ s.id \notin seen}
         IN  IF found = {} THEN ResolveUnique(Tail(symptom_names), seen)
             ELSE {[ids |-> <<s.id>> \o r.ids, matched |-> <<s.name>> \o r.matched]
                   : s \in found,
                     r \in ResolveUnique(Tail(symptom_names), seen \cup {x.id : x \in found})}

get_symptom_ids_unique(symptom_names) == ResolveUnique(symptom_names, {})

\* t occurs in s as a run of consecutive characters
Contains(s, t) ==
    \E k \in 0..(Len(s) - Len(t)) : SubSeq(s, k + 1, k + Len(t)) = t

\* variant: WHERE LOWER(name) LIKE '%..%', the comparison of search_symptoms
RECURSIVE get_symptom_ids_like(_)
get_symptom_ids_like(symptom_names) ==
    IF symptom_names = <<>> THEN {[ids |-> <<>>, matched |-> <<>>]}
    ELSE LET symptom_clean == Lower(Strip(Head(symptom_names)))
             found == {s \in symptoms : Contains(Lower(s.name), symptom_clean)}
             others == get_symptom_ids_like(Tail(symptom_names))
         IN  IF found = {} THEN others
             ELSE {[ids |-> <<s.id>> \o r.ids, matched |-> <<s.name>> \o r.matched]
                   : s \in found, r \in others}

\* get_symptom_ids(symptom_names): for each name, strip().lower(), then
\* SELECT id, name FROM symptoms WHERE LOWER(name) = %s and fetchone();
\* a hit appends the id and the stored name. fetchone() returns any one of
\* the rows that match.
RECURSIVE get_symptom_ids(_)
get_symptom_ids(symptom_names) ==
    IF symptom_names = <<>> THEN {[ids |-> <<>>, matched |-> <<>>]}
    ELSE LET symptom_clean == Lower(Strip(Head(symptom_names)))
             found == {s \in symptoms : Lower(s.name) = symptom_clean}
             rest == get_symptom_ids(Tail(symptom_names))
         IN  IF found = {} THEN rest
             ELSE {[ids |-> <<s.id>> \o r.ids, matched |-> <<s.name>> \o r.matched]
                   : s \in found, r \in rest}

\* variant: no ORDER BY, the rows come in insertion order
NaturalTexts(I) ==
    {[k \in 1..Cardinality(I) |->
        recommendations[CHOOSE i \in I : Cardinality({j \in I : j <= i}) = k].recommendation_text]}

\* ORDER BY precaution_order over the rows at the indexes I of the table:
\* rows of equal precaution_order come in any order
RECURSIVE OrderedTexts(_)
OrderedTexts(I) ==
    IF I = {} THEN {<<>>}
    ELSE UNION {{<<recommendations[i].recommendation_text>> \o rest
                    : rest \in OrderedTexts(I \ {i})}
                : i \in {k \in I : \A j \in I :
                            recommendations[k].precaution_order
                                <= recommendations[j].precaution_order}}

\* get_recommendations(disease_id): SELECT recommendation_text FROM recommendations
\* WHERE disease_id = %s ORDER BY precaution_order
get_recommendations(disease_id) ==
    OrderedTexts({i \in DOMAIN recommendations : recommendations[i].disease_id = disease_id})

-----------------------------------------------------------------------------
(* Responses *)

NoMessage == [text |-> "", count |-> 0]

NoResponse ==
    [status |-> "none", message |-> NoMessage, input_symptoms |-> <<>>,
     matched_symptoms |-> <<>>, results |-> <<>>]

\* DiagnoseResponse(status, message, input_symptoms, matched_symptoms, results)
DiagnoseResponse(status, message, input, matched, formatted) ==
    [status |-> status, message |-> message, input_symptoms |-> input,
     matched_symptoms |-> matched, results |-> formatted]

\* HTTPException(status_code=500, detail=..)
HTTPException ==
    [status |-> "500", message |-> [text |-> "Error performing diagnosis", count |-> 0],
     input_symptoms |-> <<>>, matched_symptoms |-> <<>>, results |-> <<>>]

\* float(n) of an integer below 2^53 is the same number
ToFloat(n) == n

\* DiagnoseResult(.., confidence_score=float(result['confidence_score']), ..)
DiagnoseResult(result) ==
    [disease_id |-> result.disease_id,
     disease_name |-> result.disease_name,
     description |-> result.description,
     match_count |-> result.match_count,
     total_symptoms |-> result.total_symptoms,
     confidence_score |-> ToFloat(result.confidence_score[1]),
     recommendations |-> result.recommendations]

-----------------------------------------------------------------------------
(* The precaution loader *)

nan == <<"n", "a", "n">>
rest == <<"r", "e", "s", "t">>
fluids == <<"f", "l", "u", "i", "d", "s">>
dark == <<"d", "a", "r", "k">>

\* data/Disease precaution.csv: a disease cell and the precaution cells of each
\* row; Null is an empty cell (NaN)
PrecautionCSV ==
    << [disease |-> Padded(DiseaseName(1)), precautions |-> <<Some(rest), Some(fluids)>>],
       [disease |-> DiseaseName(2), precautions |-> <<Null, Some(Padded(rest))>>],
       [disease |-> DiseaseName(2), precautions |-> <<Some(dark), Null>>],
       [disease |-> Flu, precautions |-> <<Some(rest), Some(fluids)>>],
       [disease |-> <<"M", "i", "g", "r", "a", "i", "n", "e", " ">>,
        precautions |-> <<Some(dark), Null>>],
       [disease |-> <<"C", "o", "m", "m", "o", "n", " ", " ", "C", "o", "l", "d">>,
        precautions |-> <<Some(fluids), Some(<<" ">>)>>],
       [disease |-> nan, precautions |-> <<Some(rest), Null>>] >>

\* runs of whitespace become one space
RECURSIVE Collapse(_)
Collapse(s) ==
    IF s = <<>> THEN <<>>
    ELSE IF Head(s) \in Whitespace THEN <<" ">> \o Collapse(LStrip(s))
    ELSE <<Head(s)>> \o Collapse(Tail(s))

\* ' '.join(s.split())
JoinSplit(s) == Collapse(Strip(s))

\* disease_map = {row[1].lower(): row[0] for row in cursor.fetchall()}: when two
\* names agree in lower case the row fetched last wins, and the fetch order is
\* not specified
RECURSIVE MapsOver(_)
MapsOver(keys) ==
    IF keys = {} THEN {<<>>}
    ELSE LET k == CHOOSE x \in keys : TRUE
         IN  {(k :> d.id) @@ f : d \in {x \in diseases : Lower(x.name) = k},
                                 f \in MapsOver(keys \ {k})}

DiseaseMaps == MapsOver({Lower(d.name) : d \in diseases})

\* disease_map.get(disease_name), then the retry on ' '.join(disease_name.split());
\* Null when neither key is in the map
LookupDisease(disease_map, disease_name) ==
    IF disease_name \in DOMAIN disease_map THEN Some(disease_map[disease_name])
    ELSE IF JoinSplit(disease_name) \in DOMAIN disease_map
         THEN Some(disease_map[JoinSplit(disease_name)])
         ELSE Null

\* the INSERTs of one CSV row: one per precaution cell that is neither NaN nor blank,
\* with precaution_order the 1-based position of the column
RowInserts(disease_map, row) ==
    LET disease_name == Lower(Strip(row.disease))
        disease_id == LookupDisease(disease_map, disease_name)
        kept == {idx \in DOMAIN row.precautions :
                    /\ row.precautions[idx] # Null
                    /\ Strip(row.precautions[idx][1]) # <<>>
                    /\ row.precautions[idx][1] # nan}
        Ins[idx \in 0..Len(row.precautions)] ==
            IF idx = 0 THEN <<>>
            ELSE IF idx \in kept
                 THEN Append(Ins[idx - 1],
                             [disease_id |-> disease_id[1],
                              recommendation_text |-> Strip(row.precautions[idx][1]),
                              precaution_order |-> idx])
                 ELSE Ins[idx - 1]
    IN  IF disease_name = <<>> \/ disease_name = nan \/ disease_id = Null
        THEN <<>>
        ELSE Ins[Len(row.precautions)]

\* the INSERTs of the whole file, in row order
RECURSIVE FileInserts(_, _)
FileInserts(disease_map, csv) ==
    IF csv = <<>> THEN <<>>
    ELSE RowInserts(disease_map, Head(csv)) \o FileInserts(disease_map, Tail(csv))

\* load_precautions(): one transaction, visible to other connections at conn.commit()
load_precautions ==
    /\ \E disease_map \in DiseaseMaps :
          recommendations' = recommendations \o FileInserts(disease_map, PrecautionCSV)
    /\ version' = version + 1
    /\ loads' = loads + 1
    /\ UNCHANGED <<symptoms, diseases, disease_symptoms, seqs, runs, schema>>
    /\ UNCHANGED requestVars

\* a run of load_precautions()
LoadPrecautions ==
    /\ loads < MaxLoads
    /\ load_precautions

\* one more run of load_precautions(), on the same file
ReloadPrecautions ==
    /\ loads = MaxLoads
    /\ load_precautions

-----------------------------------------------------------------------------
(* The symptom and disease loader *)

\* data/DiseaseAndSymptoms.csv: a disease cell and the symptom cells of each row;
\* Null is an empty cell (NaN)
DiseaseFileA ==
    << [disease |-> DiseaseName(1), symptoms |-> <<Some(<<"a">>), Some(<<" ", "A", " ">>)>>],
       [disease |-> Padded(DiseaseName(2)), symptoms |-> <<Some(<<"a", "_", "b">>), Null>>],
       [disease |-> DiseaseName(1), symptoms |-> <<Some(<<"b">>), Some(<<"a">>)>>] >>

DiseaseFileB ==
    << [disease |-> Lower(DiseaseName(1)), symptoms |-> <<Some(<<"B">>), Some(<<"A", "_", "B">>)>>],
       [disease |-> nan, symptoms |-> <<Some(<<"C">>), Null>>],
       [disease |-> DiseaseName(1), symptoms |-> <<Some(<<"c">>), Some(<<" ">>)>>] >>

DiseaseCSVs == {DiseaseFileA, DiseaseFileB}

\* str.replace('_', ' ')
ReplaceUnderscore(s) == [i \in DOMAIN s |-> IF s[i] = "_" THEN " " ELSE s[i]]

\* variant: the name keeps its case
CleanSymptomKeepCase(cell) == ReplaceUnderscore(Strip(cell))

\* str(symptom).strip().lower().replace('_', ' ')
CleanSymptom(cell) == ReplaceUnderscore(Lower(Strip(cell)))

\* the symptom cells that are neither NaN nor blank
SymptomCells(csv) ==
    UNION {{cells[c][1] : c \in {k \in DOMAIN cells :
                                     cells[k] # Null /\ Strip(cells[k][1]) # <<>>}} :
              cells \in {csv[r].symptoms : r \in DOMAIN csv}}

\* extract_symptoms_from_disease_file(): the set of cleaned names
extract_symptoms_from_disease_file(csv) == {CleanSymptom(cell) : cell \in SymptomCells(csv)}

\* list(all_symptoms): the elements of the set in any order
RECURSIVE Orders(_)
Orders(S) ==
    IF S = {} THEN {<<>>}
    ELSE UNION {{<<x>> \o o : o \in Orders(S \ {x})} : x \in S}

\* INSERT INTO symptoms (name, severity_weight) VALUES (%s, 5) ON CONFLICT (name)
\* DO NOTHING, under UNIQUE(name); the sequence advances also on a conflict
InsertSymptom(st, name) ==
    [table |-> IF \E x \in st.table : x.name = name
               THEN st.table
               ELSE st.table \cup {SymptomRow(st.seq + 1, name)},
     seq |-> st.seq + 1]

\* the loop of load_symptoms over the list
RECURSIVE InsertSymptoms(_, _)
InsertSymptoms(names, st) ==
    IF names = <<>> THEN st
    ELSE InsertSymptoms(Tail(names), InsertSymptom(st, Head(names)))

\* load_symptoms(): one transaction, visible at conn.commit()
LoadSymptoms ==
    /\ runs < MaxRuns
    /\ \E csv \in DiseaseCSVs :
          \E names \in Orders(extract_symptoms_from_disease_file(csv)) :
              LET st == InsertSymptoms(names, [table |-> symptoms, seq |-> seqs.symptoms])
              IN  /\ symptoms' = st.table
                  /\ seqs' = [seqs EXCEPT !.symptoms = st.seq]
    /\ version' = version + 1
    /\ runs' = runs + 1
    /\ UNCHANGED <<diseases, disease_symptoms, recommendations, loads, schema>>
    /\ UNCHANGED requestVars

\* INSERT INTO diseases (name) VALUES (%s) ON CONFLICT (name) DO UPDATE SET name =
\* EXCLUDED.name RETURNING id, under UNIQUE(name): the id of the row of that name,
\* new or old; the sequence advances in both cases
UpsertDisease(st, name) ==
    IF \E x \in st.diseases : x.name = name
    THEN [st EXCEPT !.dseq = st.dseq + 1,
                    !.disease_id = (CHOOSE x \in st.diseases : x.name = name).id]
    ELSE [st EXCEPT !.diseases = st.diseases \cup {DiseaseRow(st.dseq + 1, name)},
                    !.dseq = st.dseq + 1,
                    !.disease_id = st.dseq + 1]

\* variant: a plain INSERT into a table without UNIQUE(disease_id, symptom_id)
InsertAssocNoUnique(st, symptom_id) ==
    [st EXCEPT !.disease_symptoms =
                    st.disease_symptoms \cup {AssocRow(st.aseq + 1, st.disease_id, symptom_id)},
               !.aseq = st.aseq + 1]

\* INSERT INTO disease_symptoms (disease_id, symptom_id, weight) VALUES (%s, %s, 1.0)
\* ON CONFLICT (disease_id, symptom_id) DO NOTHING, under UNIQUE(disease_id, symptom_id)
InsertAssoc(st, symptom_id) ==
    [st EXCEPT !.disease_symptoms =
                    IF \E x \in st.disease_symptoms :
                          x.disease_id = st.disease_id /\ x.symptom_id = symptom_id
                    THEN st.disease_symptoms
                    ELSE st.disease_symptoms
                            \cup {AssocRow(st.aseq + 1, st.disease_id, symptom_id)},
               !.aseq = st.aseq + 1]

\* the loop over the symptom columns of one row: a cell that is neither NaN nor
\* blank and whose cleaned name is in symptom_map links the disease to the symptom
RECURSIVE LinkSymptoms(_, _, _)
LinkSymptoms(cells, symptom_map, st) ==
    IF cells = <<>> THEN st
    ELSE LET cell == Head(cells)
         IN  IF cell # Null /\ Strip(cell[1]) # <<>>
                 /\ \E x \in symptom_map : x.name = CleanSymptom(cell[1])
             THEN LinkSymptoms(Tail(cells), symptom_map,
                      InsertAssoc(st, (CHOOSE x \in symptom_map :
                                          x.name = CleanSymptom(cell[1])).id))
             ELSE LinkSymptoms(Tail(cells), symptom_map, st)

\* the loop of load_diseases_and_relationships over the rows: a row whose disease
\* cell is blank or 'nan' is skipped
RECURSIVE LoadRows(_, _, _)
LoadRows(csv, symptom_map, st) ==
    IF csv = <<>> THEN st
    ELSE LET disease_name == Strip(Head(csv).disease)
         IN  IF disease_name = <<>> \/ disease_name = nan
             THEN LoadRows(Tail(csv), symptom_map, st)
             ELSE LoadRows(Tail(csv), symptom_map,
                      LinkSymptoms(Head(csv).symptoms, symptom_map,
                                   UpsertDisease(st, disease_name)))

\* load_diseases_and_relationships(): symptom_map is the symptoms table as read
\* at the start; one transaction, visible at conn.commit()
LoadDiseases ==
    /\ runs < MaxRuns
    /\ \E csv \in DiseaseCSVs :
          LET st == LoadRows(csv, symptoms,
                        [diseases |-> diseases, disease_symptoms |-> disease_symptoms,
                         dseq |-> seqs.diseases, aseq |-> seqs.disease_symptoms,
                         disease_id |-> 0])
          IN  /\ diseases' = st.diseases
              /\ disease_symptoms' = st.disease_symptoms
              /\ seqs' = [seqs EXCEPT !.diseases = st.dseq, !.disease_symptoms = st.aseq]
    /\ version' = version + 1
    /\ runs' = runs + 1
    /\ UNCHANGED <<symptoms, recommendations, loads, schema>>
    /\ UNCHANGED requestVars

-----------------------------------------------------------------------------
(* The schema script init_db *)

\* the statements of create_schema in order, each named by the relation it creates
Statements ==
    << "symptoms", "diseases", "disease_symptoms", "recommendations",
       "idx_disease_symptoms_disease", "idx_disease_symptoms_symptom",
       "idx_recommendations_disease" >>

SchemaRelations == {Statements[i] : i \in DOMAIN Statements}

\* the relation each relation needs: REFERENCES of a table, the table of an index
Needs(r) ==
    CASE r = "disease_symptoms" -> {"diseases", "symptoms"}
      [] r = "recommendations" -> {"diseases"}
      [] r = "idx_disease_symptoms_disease" -> {"disease_symptoms"}
      [] r = "idx_disease_symptoms_symptom" -> {"disease_symptoms"}
      [] r = "idx_recommendations_disease" -> {"recommendations"}
      [] OTHER -> {}

\* the databases the script may be run on: IF NOT EXISTS and DROP .. IF EXISTS
\* allow for any of the relations being there already
Databases ==
    {S \in SUBSET (SchemaRelations \cup {"diagnose"}) :
        \A r \in S : Needs(r) \subseteq S}

\* the database the service and the loader run on: every relation is there and
\* init_db is not running
Installed ==
    [visible |-> SchemaRelations \cup {"diagnose"}, pending |-> {}, conn |-> "none",
     cs |-> "idle", executed |-> 0, cf |-> "idle"]

\* create_schema: conn = get_db_connection(); cursor = conn.cursor()
SchemaConnect ==
    /\ schema.cs = "idle"
    /\ schema' = [schema EXCEPT !.cs = "executing", !.conn = "open"]
    /\ UNCHANGED dataVars
    /\ UNCHANGED requestVars

\* create_schema: cursor.execute of the next CREATE TABLE / CREATE INDEX IF NOT
\* EXISTS, inside the transaction psycopg2 opened with the first statement
SchemaExecute ==
    /\ schema.cs = "executing"
    /\ schema.executed < Len(Statements)
    /\ schema' = [schema EXCEPT !.executed = schema.executed + 1,
                                !.pending =
                                    IF Statements[schema.executed + 1] \in schema.visible
                                    THEN schema.pending
                                    ELSE schema.pending
                                            \cup {Statements[schema.executed + 1]}]
    /\ UNCHANGED dataVars
    /\ UNCHANGED requestVars

\* create_schema returns after the last statement: no conn.commit(), no close()
SchemaReturn ==
    /\ schema.cs = "executing"
    /\ schema.executed = Len(Statements)
    /\ schema' = [schema EXCEPT !.cs = "returned"]
    /\ UNCHANGED dataVars
    /\ UNCHANGED requestVars

\* the connection create_schema left behind is closed, when the object is
\* collected or the process exits: the server rolls the open transaction back
SchemaDiscard ==
    /\ schema.cs = "returned"
    /\ schema.conn = "open"
    /\ schema' = [schema EXCEPT !.conn = "closed", !.pending = {}]
    /\ UNCHANGED dataVars
    /\ UNCHANGED requestVars

\* create_functions, called once create_schema has returned:
\* conn = get_db_connection(); cursor = conn.cursor()
FunctionsConnect ==
    /\ schema.cs = "returned"
    /\ schema.cf = "idle"
    /\ schema' = [schema EXCEPT !.cf = "connected"]
    /\ UNCHANGED dataVars
    /\ UNCHANGED requestVars

\* create_functions: DROP FUNCTION IF EXISTS diagnose(INTEGER[])
FunctionsDrop ==
    /\ schema.cf = "connected"
    /\ schema' = [schema EXCEPT !.cf = "dropped"]
    /\ UNCHANGED dataVars
    /\ UNCHANGED requestVars

\* create_functions: CREATE FUNCTION diagnose(symptom_ids INTEGER[]); the body of
\* a plpgsql function is not resolved against the tables at creation
FunctionsCreate ==
    /\ schema.cf = "dropped"
    /\ schema' = [schema EXCEPT !.cf = "created"]
    /\ UNCHANGED dataVars
    /\ UNCHANGED requestVars

\* create_functions: conn.commit(); cursor.close(); conn.close()
FunctionsCommit ==
    /\ schema.cf = "created"
    /\ schema' = [schema EXCEPT !.cf = "committed",
                                !.visible = schema.visible \cup {"diagnose"}]
    /\ UNCHANGED dataVars
    /\ UNCHANGED requestVars

-----------------------------------------------------------------------------
(* The request POST /api/diagnose *)

Init ==
    \E c \in InitialCatalogs :
        /\ symptoms = c.symptoms
        /\ diseases = c.diseases
        /\ disease_symptoms = c.disease_symptoms
        /\ recommendations = <<>>
        /\ version = 0
        /\ loads = 0
        /\ request \in NameLists(c)
        /\ pc = "received"
        /\ symptom_ids = <<>>
        /\ matched_symptoms = <<>>
        /\ rows = <<>>
        /\ results = <<>>
        /\ reads = <<>>
        /\ response = NoResponse
        /\ history = <<>>
        /\ nreq = 1
        /\ failed = FALSE
        /\ open = 0
        /\ seqs = [symptoms |-> Cardinality(c.symptoms),
                   diseases |-> Cardinality(c.diseases),
                   disease_symptoms |-> 100 * Cardinality(c.diseases) + 99]
        /\ runs = 0
        /\ schema = Installed

\* variant: no early return, perform_diagnosis is called with whatever was resolved
ResolveNoEarlyReturn ==
    /\ pc = "received"
    /\ \E r \in get_symptom_ids(request) :
          /\ symptom_ids' = r.ids
          /\ matched_symptoms' = r.matched
    /\ pc' = "resolved"
    /\ UNCHANGED <<request, rows, results, reads, response, history, nreq, failed, open>>
    /\ UNCHANGED catalogVars

\* diagnose_symptoms, step 1: get_symptom_ids, its handle opened and closed within
\* the call, and the early return when no symptom matched
Resolve ==
    /\ pc = "received"
    /\ \E r \in get_symptom_ids(request) :
          /\ symptom_ids' = r.ids
          /\ matched_symptoms' = r.matched
          /\ IF r.ids = <<>>
             THEN /\ response' = DiagnoseResponse("warning",
                                    [text |-> "No symptoms matched in database", count |-> 0],
                                    request, <<>>, <<>>)
                  /\ pc' = "done"
             ELSE /\ response' = response
                  /\ pc' = "resolved"
    /\ UNCHANGED <<request, rows, results, reads, history, nreq, failed, open>>
    /\ UNCHANGED catalogVars

\* variant: the scoring call also raises the severity_weight of the symptoms it
\* was asked about, and commits
ScoreRecordingUse ==
    /\ pc = "resolved"
    /\ rows' \in Diagnose(symptom_ids)
    /\ results' = <<>>
    /\ reads' = <<version>>
    /\ pc' = "attaching"
    /\ open' = open + 1
    /\ symptoms' = {IF EqAny(symptom_ids, s.id)
                    THEN [s EXCEPT !.severity_weight = 6]
                    ELSE s : s \in symptoms}
    /\ UNCHANGED <<request, symptom_ids, matched_symptoms, response, history, nreq, failed>>
    /\ UNCHANGED <<diseases, disease_symptoms, recommendations, version, loads, seqs, runs,
                   schema>>

\* perform_diagnosis: get_db_connection(), cursor.execute("SELECT * FROM
\* diagnose(%s)") and fetchall(); the handle stays open over the loop
Score ==
    /\ pc = "resolved"
    /\ rows' \in Diagnose(symptom_ids)
    /\ results' = <<>>
    /\ reads' = <<version>>
    /\ pc' = "attaching"
    /\ open' = open + 1
    /\ UNCHANGED <<request, symptom_ids, matched_symptoms, response, history, nreq, failed>>
    /\ UNCHANGED catalogVars

\* perform_diagnosis, one turn of the loop: get_recommendations on a connection
\* of its own, opened and closed within the call, then results.append
Attach ==
    /\ pc = "attaching"
    /\ Len(results) < Len(rows)
    /\ LET row == rows[Len(results) + 1]
       IN  \E recs \in get_recommendations(row.disease_id) :
              results' = Append(results,
                  [disease_id |-> row.disease_id,
                   disease_name |-> row.disease_name,
                   description |-> row.description,
                   match_count |-> row.match_count,
                   total_symptoms |-> row.total_symptoms,
                   confidence_score |-> row.confidence_score,
                   recommendations |-> recs])
    /\ reads' = Append(reads, version)
    /\ UNCHANGED <<request, pc, symptom_ids, matched_symptoms, rows, response, history, nreq,
                   failed, open>>
    /\ UNCHANGED catalogVars

\* perform_diagnosis closes its handle and returns; diagnose_symptoms, step 3: the warning for an empty
\* list, else the results converted in order; float(None) raises and the except
\* clause turns it into the HTTPException
Format ==
    /\ pc = "attaching"
    /\ Len(results) = Len(rows)
    /\ history' = Append(history, [ids |-> symptom_ids, results |-> results, reads |-> reads])
    /\ response' =
          IF results = <<>>
          THEN DiagnoseResponse("warning",
                   [text |-> "No diseases found matching these symptoms", count |-> 0],
                   request, matched_symptoms, <<>>)
          ELSE IF \E i \in DOMAIN results : results[i].confidence_score = Null
          THEN HTTPException
          ELSE DiagnoseResponse("success",
                   [text |-> "Found possible disease(s)", count |-> Len(results)],
                   request, matched_symptoms,
                   [i \in DOMAIN results |-> DiagnoseResult(results[i])])
    /\ pc' = "done"
    /\ open' = open - 1
    /\ UNCHANGED <<request, symptom_ids, matched_symptoms, rows, results, reads, nreq, failed>>
    /\ UNCHANGED catalogVars

\* the client sends the same symptom_names again; the service keeps nothing
\* from one request to the next
Again ==
    /\ pc = "done"
    /\ nreq < MaxRequests
    /\ nreq' = nreq + 1
    /\ pc' = "received"
    /\ symptom_ids' = <<>>
    /\ matched_symptoms' = <<>>
    /\ rows' = <<>>
    /\ results' = <<>>
    /\ reads' = <<>>
    /\ response' = NoResponse
    /\ failed' = FALSE
    /\ UNCHANGED <<request, history, open>>
    /\ UNCHANGED catalogVars

Next ==
    \/ Resolve
    \/ Score
    \/ Attach
    \/ Format
    \/ Again
    \/ LoadPrecautions

Spec == Init /\ [][Next]_vars

-----------------------------------------------------------------------------
(* Storage failures *)

\* a lookup of the request is about to call the storage
AtStorageCall ==
    \/ pc = "received"
    \/ pc = "resolved"
    \/ pc = "attaching" /\ Len(results) < Len(rows)

\* the except clause of diagnose_symptoms: raise HTTPException(status_code=500)
Raise500 ==
    /\ response' = HTTPException
    /\ pc' = "done"
    /\ failed' = TRUE
    /\ UNCHANGED <<request, symptom_ids, matched_symptoms, rows, results, reads, history, nreq>>
    /\ UNCHANGED catalogVars

\* variant: the failure is swallowed and answered like an empty result
ConnectFailSwallowed ==
    /\ AtStorageCall
    /\ response' = DiagnoseResponse("warning",
                       [text |-> "No diseases found matching these symptoms", count |-> 0],
                       request, matched_symptoms, <<>>)
    /\ pc' = "done"
    /\ failed' = TRUE
    /\ UNCHANGED <<request, symptom_ids, matched_symptoms, rows, results, reads, history, nreq,
                   open>>
    /\ UNCHANGED catalogVars

\* get_db_connection() raises in get_symptom_ids, perform_diagnosis or
\* get_recommendations: no handle is opened; the handle perform_diagnosis holds
\* while get_recommendations runs is not closed, its close() is never reached
ConnectFail ==
    /\ AtStorageCall
    /\ Raise500
    /\ open' = open

\* cursor.execute() raises in get_symptom_ids, perform_diagnosis or
\* get_recommendations: the handle just opened is not closed, no finally clause
\* reaches its close(), nor the one of the handle perform_diagnosis holds
QueryFail ==
    /\ AtStorageCall
    /\ Raise500
    /\ open' = open + 1

NextFail ==
    \/ Next
    \/ ConnectFail
    \/ QueryFail

SpecFail == Init /\ [][NextFail]_vars

-----------------------------------------------------------------------------
(* Catalogs that differ in their weights *)

\* values of the columns other than the defaults 1.0 and 5
HeavyWeight == 2
HighSeverity == 9

\* the columns weight and severity_weight hold their defaults
DefaultWeights ==
    /\ \A ds \in disease_symptoms : ds.weight = 1
    /\ \A x \in symptoms : x.severity_weight = 5

\* a catalog maintainer sets the weight of every association of symptom k and the
\* severity_weight of symptom k, before the first request is served; nothing else
\* of the catalog changes
Reweigh ==
    /\ pc = "received"
    /\ history = <<>>
    /\ DefaultWeights
    /\ \E k \in 1..MaxSymptom :
          /\ \E ds \in disease_symptoms : ds.symptom_id = k
          /\ disease_symptoms' =
                {IF ds.symptom_id = k THEN [ds EXCEPT !.weight = HeavyWeight] ELSE ds :
                    ds \in disease_symptoms}
          /\ symptoms' =
                {IF x.id = k THEN [x EXCEPT !.severity_weight = HighSeverity] ELSE x :
                    x \in symptoms}
    /\ version' = version + 1
    /\ UNCHANGED <<diseases, recommendations, loads, seqs, runs, schema>>
    /\ UNCHANGED requestVars

NextWeights ==
    \/ Next
    \/ Reweigh

SpecWeights == Init /\ [][NextWeights]_vars

-----------------------------------------------------------------------------
(* The loader on a fresh schema *)

\* the tables as created, no request being served
InitLoad ==
    /\ symptoms = {}
    /\ diseases = {}
    /\ disease_symptoms = {}
    /\ recommendations = <<>>
    /\ version = 0
    /\ loads = 0
    /\ seqs = [symptoms |-> 0, diseases |-> 0, disease_symptoms |-> 0]
    /\ runs = 0
    /\ schema = Installed
    /\ request = <<>>
    /\ pc = "idle"
    /\ symptom_ids = <<>>
    /\ matched_symptoms = <<>>
    /\ rows = <<>>
    /\ results = <<>>
    /\ reads = <<>>
    /\ response = NoResponse
    /\ history = <<>>
    /\ nreq = 0
    /\ failed = FALSE
    /\ open = 0

NextLoad ==
    \/ LoadSymptoms
    \/ LoadDiseases
    \/ LoadPrecautions

SpecLoad == InitLoad /\ [][NextLoad]_vars

\* the loader run again on data it has loaded
NextReload ==
    \/ NextLoad
    \/ ReloadPrecautions

SpecReload == InitLoad /\ [][NextReload]_vars

-----------------------------------------------------------------------------
(* init_db on a database *)

\* a database holding any of the relations, no rows, and no script running
InitSchema ==
    /\ symptoms = {}
    /\ diseases = {}
    /\ disease_symptoms = {}
    /\ recommendations = <<>>
    /\ version = 0
    /\ loads = 0
    /\ seqs = [symptoms |-> 0, diseases |-> 0, disease_symptoms |-> 0]
    /\ runs = 0
    /\ \E db \in Databases : schema = [Installed EXCEPT !.visible = db]
    /\ request = <<>>
    /\ pc = "idle"
    /\ symptom_ids = <<>>
    /\ matched_symptoms = <<>>
    /\ rows = <<>>
    /\ results = <<>>
    /\ reads = <<>>
    /\ response = NoResponse
    /\ history = <<>>
    /\ nreq = 0
    /\ failed = FALSE
    /\ open = 0

NextSchema ==
    \/ SchemaConnect
    \/ SchemaExecute
    \/ SchemaReturn
    \/ SchemaDiscard
    \/ FunctionsConnect
    \/ FunctionsDrop
    \/ FunctionsCreate
    \/ FunctionsCommit

SpecSchema == InitSchema /\ [][NextSchema]_vars

-----------------------------------------------------------------------------
(* Vocabulary of the properties *)

\* the candidates of the response
Returned == {response.results[i] : i \in DOMAIN response.results}

Answered == pc = "done" /\ response.status = "success"

\* profile(d): the symptom ids associated with disease id d
Profile(d) == {ds.symptom_id : ds \in {x \in disease_symptoms : x.disease_id = d}}

\* the input of diagnose() as a set
IdSet(ids) == {ids[i] : i \in DOMAIN ids}

Abs(x) == IF x < 0 THEN -x ELSE x

NoDuplicates(seq) == \A i, j \in DOMAIN seq : seq[i] = seq[j] => i = j

IsScenarioA ==
    /\ symptoms = ScenarioA.symptoms
    /\ diseases = ScenarioA.diseases
    /\ disease_symptoms = ScenarioA.disease_symptoms

Summary(r) == <<r.disease_name, r.match_count, r.total_symptoms, r.confidence_score>>

Summaries(rs) == [i \in DOMAIN rs |-> Summary(rs[i])]

-----------------------------------------------------------------------------
(* C1 *)

\* C1, as stated: every returned candidate has
\* confidence_score = floor(100 * match_count / total_symptoms).
C1_TruncationLaw ==
    \A r \in Returned : r.confidence_score = (100 * r.match_count) \div r.total_symptoms

\* C1, amended: every returned candidate's confidence_score is the integer nearest
\* to 100 * match_count / total_symptoms, and the even neighbour when the quotient
\* is exactly half-way (profiles of fewer than 40 symptoms).
C1_NearestInteger ==
    \A r \in Returned :
        LET gap == Abs(r.confidence_score * r.total_symptoms - 100 * r.match_count)
        IN  \/ 2 * gap < r.total_symptoms
            \/ 2 * gap = r.total_symptoms /\ r.confidence_score % 2 = 0

\* an answer with a candidate rounded up (3 of 7 gives 43, not 42) and a candidate
\* on a half-way quotient (3 of 8 gives 38)
C1_Witness ==
    /\ Answered
    /\ \E r \in Returned :
          r.match_count = 3 /\ r.total_symptoms = 7 /\ r.confidence_score = 43
    /\ \E r \in Returned :
          r.match_count = 3 /\ r.total_symptoms = 8 /\ r.confidence_score = 38

-----------------------------------------------------------------------------
(* C2 *)

ScenarioAQuery == <<fever, headache, cough>>

\* C2, as stated: Scenario A answers Migraine (1, 1, 100), Flu (3, 4, 75),
\* Common Cold (2, 3, 66), in this order.
C2_ScenarioA_AsStated ==
    (IsScenarioA /\ request = ScenarioAQuery /\ pc = "done") =>
        Summaries(response.results) =
            << <<Migraine, 1, 1, 100>>, <<Flu, 3, 4, 75>>, <<CommonCold, 2, 3, 66>> >>

\* C2, amended: Scenario A answers Migraine (1, 1, 100), Flu (3, 4, 75),
\* Common Cold (2, 3, 67), in this order.
C2_ScenarioA ==
    (IsScenarioA /\ request = ScenarioAQuery /\ pc = "done") =>
        Summaries(response.results) =
            << <<Migraine, 1, 1, 100>>, <<Flu, 3, 4, 75>>, <<CommonCold, 2, 3, 67>> >>

\* the Scenario A query has been answered
C2_Witness ==
    IsScenarioA /\ request = ScenarioAQuery /\ Answered /\ Len(response.results) = 3

-----------------------------------------------------------------------------
(* C3 *)

\* the positions of the request whose name is known
KnownPositions ==
    {i \in DOMAIN request : \E s \in symptoms : Lower(s.name) = Lower(Strip(request[i]))}

\* C3, as stated: the resolved ids hold each id at most once and the matched names
\* each name at most once.
C3_DuplicatesCollapsed ==
    pc # "received" => NoDuplicates(symptom_ids) /\ NoDuplicates(matched_symptoms)

\* C3, amended: name resolution yields one id and one canonical (stored) name per
\* occurrence of a known name in the input, in input order; a known name that
\* occurs several times yields its id and its name as many times.
C3_OnePerOccurrence ==
    pc # "received" =>
        /\ Len(symptom_ids) = Cardinality(KnownPositions)
        /\ Len(matched_symptoms) = Cardinality(KnownPositions)
        /\ \A p \in KnownPositions :
              LET k == Cardinality({q \in KnownPositions : q <= p})
              IN  \E s \in symptoms :
                      /\ s.id = symptom_ids[k]
                      /\ s.name = matched_symptoms[k]
                      /\ Lower(s.name) = Lower(Strip(request[p]))

\* one known name was sent twice, in two spellings, and resolved twice
C3_Witness ==
    /\ pc = "resolved"
    /\ Len(request) = 2
    /\ request[1] # request[2]
    /\ Len(symptom_ids) = 2
    /\ symptom_ids[1] = symptom_ids[2]
    /\ matched_symptoms[1] = matched_symptoms[2]

-----------------------------------------------------------------------------
(* C4 *)

\* what the scoring query says of a candidate
Scoring(r) ==
    [disease_id |-> r.disease_id, match_count |-> r.match_count,
     total_symptoms |-> r.total_symptoms, confidence_score |-> r.confidence_score]

Scorings(rs) == [i \in DOMAIN rs |-> Scoring(rs[i])]

SortKeys(rs) == [i \in DOMAIN rs |-> <<rs[i].confidence_score, rs[i].match_count>>]

\* no catalog commit between the first read of call i and the last read of call j
Unchanged(i, j) ==
    \A a \in DOMAIN history[i].reads, b \in DOMAIN history[j].reads :
        history[i].reads[a] = history[j].reads[b]

\* two diseases that overlap the ids have the same number of matched symptoms and
\* the same confidence
Tied(ids) ==
    \E a, b \in Groups(ids) :
        /\ a.disease_id # b.disease_id
        /\ a.match_count = b.match_count
        /\ a.confidence_score = b.confidence_score

\* C4, as stated: two diagnose calls with the same id set against an unchanged
\* catalog return the identical sequence of candidates, ties and more than 10
\* overlapping diseases included.
C4_Idempotent ==
    \A i, j \in DOMAIN history :
        (IdSet(history[i].ids) = IdSet(history[j].ids) /\ Unchanged(i, j)) =>
            Scorings(history[i].results) = Scorings(history[j].results)

\* C4, amended: two diagnose calls with the same id set against an unchanged
\* catalog return sequences with the same confidence_score and match_count at
\* every position, and the identical sequence of diseases and scores when no two
\* overlapping diseases tie on both confidence_score and match_count.
C4_IdempotentUpToTies ==
    \A i, j \in DOMAIN history :
        (IdSet(history[i].ids) = IdSet(history[j].ids) /\ Unchanged(i, j)) =>
            /\ SortKeys(history[i].results) = SortKeys(history[j].results)
            /\ ~Tied(history[i].ids) =>
                   Scorings(history[i].results) = Scorings(history[j].results)

\* the same ids were diagnosed twice on an unchanged catalog, several diseases
\* came back, none tied
C4_Witness ==
    /\ Len(history) = 2
    /\ Unchanged(1, 2)
    /\ Len(history[1].results) >= 3
    /\ ~Tied(history[1].ids)
    /\ Scorings(history[1].results) = Scorings(history[2].results)

-----------------------------------------------------------------------------
(* C5 *)

\* C5: all catalog reads of one diagnose call, the scoring query and every
\* recommendation lookup, see the catalog as of one point in time.
C5_SinglePointInTime ==
    /\ \A a, b \in DOMAIN reads : reads[a] = reads[b]
    /\ \A i \in DOMAIN history :
          \A a, b \in DOMAIN history[i].reads : history[i].reads[a] = history[i].reads[b]

-----------------------------------------------------------------------------
(* C6 *)

\* a is not after b in ORDER BY confidence_score DESC, match_count DESC
InOrder(a, b) ==
    \/ a.confidence_score > b.confidence_score
    \/ a.confidence_score = b.confidence_score /\ a.match_count >= b.match_count

\* C6: consecutive returned candidates a, b have a.confidence_score >
\* b.confidence_score, or the same confidence_score and a.match_count >=
\* b.match_count; the response lists the diseases in the order of the scoring query.
C6_Ordered ==
    /\ \A i \in DOMAIN response.results :
          i < Len(response.results) =>
              InOrder(response.results[i], response.results[i + 1])
    /\ Answered =>
          [i \in DOMAIN response.results |-> response.results[i].disease_id]
              = [i \in DOMAIN rows |-> rows[i].disease_id]

\* an answer with a step down in confidence and a step decided by match_count
C6_Witness ==
    /\ Answered
    /\ \E i \in DOMAIN response.results :
          /\ i < Len(response.results)
          /\ response.results[i].confidence_score > response.results[i + 1].confidence_score
    /\ \E i \in DOMAIN response.results :
          /\ i < Len(response.results)
          /\ response.results[i].confidence_score = response.results[i + 1].confidence_score
          /\ response.results[i].match_count > response.results[i + 1].match_count

-----------------------------------------------------------------------------
(* C7 *)

\* C7: a returned candidate's match_count is the number of distinct symptoms in
\* both its profile and the input, and its total_symptoms the size of its whole
\* profile, repeated input ids included.
C7_Counts ==
    Answered =>
        \A r \in Returned :
            /\ r.match_count = Cardinality(Profile(r.disease_id) \cap IdSet(symptom_ids))
            /\ r.total_symptoms = Cardinality(Profile(r.disease_id))

\* an id was passed twice and a candidate matched it, on part of its profile
C7_Witness ==
    /\ Answered
    /\ ~NoDuplicates(symptom_ids)
    /\ \E r \in Returned : r.match_count = 1 /\ r.total_symptoms > 1

-----------------------------------------------------------------------------
(* C8 *)

\* C8: every row of diagnose() and every returned candidate has
\* 1 <= match_count <= total_symptoms and 0 <= confidence_score <= 100.
C8_Ranges ==
    /\ \A i \in DOMAIN rows :
          /\ 1 <= rows[i].match_count
          /\ rows[i].match_count <= rows[i].total_symptoms
          /\ rows[i].confidence_score # Null
          /\ 0 <= rows[i].confidence_score[1]
          /\ rows[i].confidence_score[1] <= 100
    /\ \A r \in Returned :
          /\ 1 <= r.match_count
          /\ r.match_count <= r.total_symptoms
          /\ 0 <= r.confidence_score
          /\ r.confidence_score <= 100

\* an answer with a full match (100) and with a partial match
C8_Witness ==
    /\ Answered
    /\ \E r \in Returned : r.match_count = r.total_symptoms /\ r.confidence_score = 100
    /\ \E r \in Returned : r.match_count < r.total_symptoms /\ r.confidence_score < 100

-----------------------------------------------------------------------------
(* C9 *)

\* the diseases whose profile shares a symptom with the ids
Overlapping(ids) == {d \in diseases : Profile(d.id) \cap IdSet(ids) # {}}

\* C9: diagnose() returns at most 10 rows, and the response at most 10 candidates.
C9_AtMostTen ==
    /\ Len(rows) <= 10
    /\ Len(results) <= 10
    /\ Len(response.results) <= 10

\* more than 10 diseases overlap the input and 10 candidates were returned
C9_Witness ==
    /\ Answered
    /\ Cardinality(Overlapping(symptom_ids)) > 10
    /\ Len(response.results) = 10

-----------------------------------------------------------------------------
(* C10 *)

\* C10: every row of diagnose() is a disease whose profile shares a symptom with
\* the input; a disease with an empty profile is in no row, and no row carries the
\* NULL of a division by zero.
C10_OnlyOverlapping ==
    \A i \in DOMAIN rows :
        /\ Profile(rows[i].disease_id) \cap IdSet(symptom_ids) # {}
        /\ Profile(rows[i].disease_id) # {}
        /\ rows[i].confidence_score # Null

\* a query was answered on a catalog that has a disease with an empty profile
C10_Witness ==
    /\ Answered
    /\ \E d \in diseases :
          /\ Profile(d.id) = {}
          /\ \A r \in Returned : r.disease_id # d.id

-----------------------------------------------------------------------------
(* C11 *)

\* s without its leading and trailing blanks and tabs
Trimmed(s) ==
    LET keep == {i \in DOMAIN s : s[i] # " " /\ s[i] # "\t"}
    IN  IF keep = {} THEN <<>>
        ELSE SubSeq(s, CHOOSE i \in keep : \A j \in keep : i <= j,
                       CHOOSE i \in keep : \A j \in keep : j <= i)

\* the symptoms whose lowercased name is the trimmed, lowercased form of some name
\* of the request
NamedSymptoms ==
    {s \in symptoms : \E i \in DOMAIN request : Lower(Trimmed(request[i])) = Lower(s.name)}

\* C11: a raw name is resolved exactly when its trimmed, lowercased form equals
\* the lowercased name of a catalog symptom; other names are dropped without an
\* error, and a list of unknown names alone yields no id and no matched name.
C11_ExactMatch ==
    pc # "received" =>
        /\ IdSet(symptom_ids) = {s.id : s \in NamedSymptoms}
        /\ IdSet(matched_symptoms) = {s.name : s \in NamedSymptoms}
        /\ response.status # "500"
        /\ NamedSymptoms = {} => symptom_ids = <<>> /\ matched_symptoms = <<>>

\* a padded name was resolved and a name that only contains a symptom name, or is
\* contained in one, was dropped
C11_Witness ==
    /\ pc = "resolved"
    /\ Len(request) = 2
    /\ Len(symptom_ids) = 1
    /\ request[1] # Trimmed(request[1])
    /\ \E s \in symptoms : s.id = symptom_ids[1] /\ Lower(Trimmed(request[1])) = s.name
    /\ \E s \in symptoms :
          Contains(request[2], s.name) \/ Contains(s.name, request[2])

-----------------------------------------------------------------------------
(* C12 *)

\* C12: once name resolution has yielded no id, perform_diagnosis is not called
\* for the request, and the request ends with a non-error response that has no
\* candidate.
C12_NoDiagnosisWithoutIds ==
    (pc # "received" /\ ~failed /\ symptom_ids = <<>>) =>
        /\ pc = "done"
        /\ reads = <<>>
        /\ rows = <<>>
        /\ results = <<>>
        /\ response.status = "warning"
        /\ response.results = <<>>
        /\ response.matched_symptoms = <<>>

\* a request of unknown names alone has been answered
C12_Witness ==
    /\ pc = "done"
    /\ ~failed
    /\ request # <<>>
    /\ symptom_ids = <<>>
    /\ response.status = "warning"
    /\ response.input_symptoms = request

-----------------------------------------------------------------------------
(* C13 *)

\* C13: a request in which a storage call raised ends with the error response
\* (HTTP 500) and never with a response that lists no candidate; a request in
\* which none raised ends with a response carrying a status, "warning" when no
\* symptom matched or no disease was found, and never with the error.
C13_FailureIsDistinct ==
    /\ (pc = "done" /\ failed) => response.status = "500"
    /\ (pc = "done" /\ ~failed) => response.status \in {"warning", "success"}
    /\ response.status = "warning" =>
          ~failed /\ response.results = <<>> /\ (symptom_ids = <<>> \/ rows = <<>>)
    /\ response.status = "success" => ~failed /\ response.results # <<>>

\* a storage call raised after the scoring query had returned candidates
C13_Witness ==
    /\ pc = "done"
    /\ failed
    /\ rows # <<>>
    /\ response.status = "500"

-----------------------------------------------------------------------------
(* C20 *)

\* C20: no lookup of the service layer is running, so every handle it opened is
\* closed, whether the lookup returned or a query in it raised.
C20_HandlesClosed ==
    pc \in {"received", "resolved", "done"} => open = 0

-----------------------------------------------------------------------------
(* C14 *)

\* texts are the recommendation texts stored for disease id d, each row once, in
\* ascending precaution_order
IsRecommendationsOf(texts, d) ==
    LET I == {i \in DOMAIN recommendations : recommendations[i].disease_id = d}
    IN  /\ Len(texts) = Cardinality(I)
        /\ \E p \in [1..Len(texts) -> I] :
              /\ \A k, l \in 1..Len(texts) : p[k] = p[l] => k = l
              /\ \A k \in 1..Len(texts) :
                    texts[k] = recommendations[p[k]].recommendation_text
              /\ \A k \in 1..Len(texts) :
                    k < Len(texts) =>
                        recommendations[p[k]].precaution_order
                            <= recommendations[p[k + 1]].precaution_order

\* C14: the candidate appended by a turn of the loop carries exactly the texts
\* stored for its disease id, in ascending precaution_order, the empty list when
\* none is stored; the response carries the list of each candidate as attached.
C14_RecommendationsAttached ==
    /\ [][Len(results') = Len(results) + 1 =>
             IsRecommendationsOf(results'[Len(results')].recommendations,
                                 results'[Len(results')].disease_id)]_vars
    /\ [](Answered =>
             \A i \in DOMAIN results :
                 /\ response.results[i].disease_id = results[i].disease_id
                 /\ response.results[i].recommendations = results[i].recommendations)

\* an answer with a candidate without recommendations and a candidate whose two
\* recommendations are stored in the reverse of their precaution_order
C14_Witness ==
    /\ Answered
    /\ \E r \in Returned : r.recommendations = <<>>
    /\ \E r \in Returned :
          /\ r.recommendations = <<dark, rest>>
          /\ \E i, j \in DOMAIN recommendations :
                /\ i < j
                /\ recommendations[i].disease_id = r.disease_id
                /\ recommendations[j].disease_id = r.disease_id
                /\ recommendations[i].recommendation_text = rest
                /\ recommendations[j].recommendation_text = dark

-----------------------------------------------------------------------------
(* C15 *)

\* C15: a step of a diagnosis request, name resolution, scoring, a recommendation
\* lookup, the response or a failure, leaves the symptoms, diseases, associations
\* and recommendations of the catalog as they were.
C15_ReadOnly ==
    [][requestVars' # requestVars =>
          /\ symptoms' = symptoms
          /\ diseases' = diseases
          /\ disease_symptoms' = disease_symptoms
          /\ recommendations' = recommendations]_vars

\* on a catalog with recommendations, a request was answered with candidates and
\* the next one failed
C15_Witness ==
    /\ nreq = 2
    /\ pc = "done"
    /\ failed
    /\ history # <<>>
    /\ history[1].results # <<>>
    /\ recommendations # <<>>
    /\ disease_symptoms # {}

-----------------------------------------------------------------------------
(* C16 *)

\* C16: after any sequence of loader runs the catalog holds at most one association
\* per (disease, symptom) pair, so total_symptoms(d) counts each symptom of the
\* profile of d once.
C16_OneAssociationPerPair ==
    /\ \A x, y \in disease_symptoms :
          x.disease_id = y.disease_id /\ x.symptom_id = y.symptom_id => x = y
    /\ \A d \in diseases : TotalSymptoms(d) = Cardinality(Profile(d.id))

\* the loader met a pair that was already associated: the sequence of
\* disease_symptoms advanced further than the table grew
C16_Witness ==
    /\ disease_symptoms # {}
    /\ seqs.disease_symptoms > Cardinality(disease_symptoms)
    /\ \E d \in diseases : TotalSymptoms(d) >= 2

-----------------------------------------------------------------------------
(* C17 *)

\* raw names as a client may send them
ProbeNames == {<<"A">>, Padded(<<"b">>), <<"a", " ", "b">>, <<"C">>, <<"a", "_", "b">>}

\* C17: in every catalog state reached through the schema and the loader no two
\* symptoms have the same lowercased name, and a raw name resolves to at most one
\* symptom id, the same on every call.
C17_UniqueCaseInsensitive ==
    /\ \A x, y \in symptoms : Lower(x.name) = Lower(y.name) => x = y
    /\ \A n \in ProbeNames :
          /\ Cardinality(get_symptom_ids(<<n>>)) = 1
          /\ \A r \in get_symptom_ids(<<n>>) : Len(r.ids) <= 1

\* the loader met a name already stored, and names sent in another case or with
\* padding resolve
C17_Witness ==
    /\ seqs.symptoms > Cardinality(symptoms)
    /\ \A r \in get_symptom_ids(<<<<"A">>>>) : Len(r.ids) = 1
    /\ \A r \in get_symptom_ids(<<Padded(<<"b">>)>>) : Len(r.ids) = 1
    /\ \A r \in get_symptom_ids(<<<<"a", "_", "b">>>>) : r.ids = <<>>

-----------------------------------------------------------------------------
(* C18 *)

\* an association, and a symptom, without its weight
Unweighted(ds) == [id |-> ds.id, disease_id |-> ds.disease_id, symptom_id |-> ds.symptom_id]

Unsevere(x) == [id |-> x.id, name |-> x.name]

\* id lists a request may resolve to: those of the request in hand, and the lists
\* of one or two of the first symptoms
InputIds ==
    {r.ids : r \in get_symptom_ids(request)}
        \cup {<<a>> : a \in 1..MaxSymptom}
        \cup {<<a, b>> : a \in 1..MaxSymptom, b \in 1..MaxSymptom}

\* C18: scoring ignores the association weight and the severity_weight: when the
\* catalog before and the catalog after a step differ only in these weights,
\* diagnose() has the same grouped rows (candidates, match_count, total_symptoms,
\* confidence_score) and the same result sequences on both, for every input id
\* list.
C18_WeightsIgnored ==
    [][(/\ {Unweighted(ds) : ds \in disease_symptoms}' = {Unweighted(ds) : ds \in disease_symptoms}
        /\ {Unsevere(x) : x \in symptoms}' = {Unsevere(x) : x \in symptoms}
        /\ diseases' = diseases
        /\ <<disease_symptoms, symptoms>>' # <<disease_symptoms, symptoms>>)
       => \A ids \in InputIds :
             \A before \in {Groups(ids)}, after \in {Groups(ids)'} :
                 /\ after = before
                 /\ OrderedLimit(after, Limit) = OrderedLimit(before, Limit)]_vars

\* a request answered with candidates on a catalog in which an association of a
\* returned disease with a symptom of the input has another weight than 1.0
C18_Witness ==
    /\ Answered
    /\ response.results # <<>>
    /\ \E ds \in disease_symptoms :
          /\ ds.weight # 1
          /\ EqAny(symptom_ids, ds.symptom_id)
          /\ \E r \in Returned : r.disease_id = ds.disease_id
    /\ \E x \in symptoms : x.severity_weight # 5 /\ EqAny(symptom_ids, x.id)

-----------------------------------------------------------------------------
(* C19 *)

\* the ids of the diseases in the rows of diagnose()
RowIds == {rows[i].disease_id : i \in DOMAIN rows}

\* the overlap of disease d with the ids, and its share of the profile in percent
Overlap(d, ids) == Cardinality(Profile(d.id) \cap IdSet(ids))

Share(d, ids) == ConfidenceScore(Overlap(d, ids), Cardinality(Profile(d.id)))[1]

\* C19: truncation happens after ranking: when at most 10 diseases overlap the
\* input every one of them is in the rows of diagnose(); when more than 10
\* overlap, there are 10 rows and no omitted disease has a higher confidence_score
\* than a returned one, nor an equal confidence_score with a higher match_count.
C19_TruncationAfterRanking ==
    pc \in {"attaching", "done"} =>
        /\ Cardinality(Overlapping(symptom_ids)) <= 10 =>
              \A d \in Overlapping(symptom_ids) : d.id \in RowIds
        /\ Cardinality(Overlapping(symptom_ids)) > 10 =>
              /\ Len(rows) = 10
              /\ \A d \in Overlapping(symptom_ids) :
                    d.id \notin RowIds =>
                        \A i \in DOMAIN rows :
                            /\ Share(d, symptom_ids) <= rows[i].confidence_score[1]
                            /\ Share(d, symptom_ids) = rows[i].confidence_score[1]
                                   => Overlap(d, symptom_ids) <= rows[i].match_count

\* a request answered on a catalog in which 11 diseases overlap the input: one is
\* omitted, and it ranks strictly below some returned candidate
C19_Witness ==
    /\ Answered
    /\ Cardinality(Overlapping(symptom_ids)) > 10
    /\ \E d \in Overlapping(symptom_ids) :
          /\ d.id \notin RowIds
          /\ \E i \in DOMAIN rows : Share(d, symptom_ids) < rows[i].confidence_score[1]

-----------------------------------------------------------------------------
(* C21 *)

\* C21: once create_schema has returned, the four tables and the three indexes
\* are committed, hence visible to every connection opened afterwards.
C21_SchemaDurable ==
    schema.cs = "returned" => SchemaRelations \subseteq schema.visible

-----------------------------------------------------------------------------
(* C22 *)

\* the rows of the recommendations table
StoredRecommendations == {recommendations[i] : i \in DOMAIN recommendations}

\* every symptom name of the CSV files is stored
SymptomsLoaded ==
    \A csv \in DiseaseCSVs :
        extract_symptoms_from_disease_file(csv) \subseteq {x.name : x \in symptoms}

\* every disease of the CSV files is stored and linked to each of its symptoms
\* that is stored
DiseasesLoaded ==
    \A csv \in DiseaseCSVs : \A r \in DOMAIN csv :
        Strip(csv[r].disease) \notin {<<>>, nan} =>
            \E d \in diseases :
                /\ d.name = Strip(csv[r].disease)
                /\ \A c \in DOMAIN csv[r].symptoms :
                      LET cell == csv[r].symptoms[c]
                      IN  cell # Null /\ Strip(cell[1]) # <<>> =>
                              \A x \in symptoms :
                                  x.name = CleanSymptom(cell[1]) => x.id \in Profile(d.id)

\* every recommendation a run of load_precautions would insert is stored
PrecautionsLoaded ==
    \A disease_map \in DiseaseMaps :
        \A i \in DOMAIN FileInserts(disease_map, PrecautionCSV) :
            FileInserts(disease_map, PrecautionCSV)[i] \in StoredRecommendations

\* C22, first half: a run of a loader function on data that is loaded already
\* leaves the tables as they are.
C22_SecondRunChangesNothing ==
    [][/\ (seqs.symptoms' # seqs.symptoms /\ SymptomsLoaded)
            => symptoms' = symptoms
       /\ (seqs.diseases' # seqs.diseases /\ DiseasesLoaded)
            => <<diseases, disease_symptoms>>' = <<diseases, disease_symptoms>>
       /\ (loads' = loads + 1 /\ PrecautionsLoaded)
            => recommendations' = recommendations]_vars

\* C22, second half: no disease has a recommendation twice, nor two
\* recommendations of the same order.
C22_NoDuplicateRecommendations ==
    \A i, j \in DOMAIN recommendations :
        i # j /\ recommendations[i].disease_id = recommendations[j].disease_id =>
            /\ recommendations[i].recommendation_text # recommendations[j].recommendation_text
            /\ recommendations[i].precaution_order # recommendations[j].precaution_order

\* C22: loading is idempotent: running the loader twice on the same CSV data leaves
\* the catalog equal to running it once, so no disease ends up with duplicated
\* recommendations or with two recommendations of the same order.
C22_LoadingIdempotent == C22_SecondRunChangesNothing /\ []C22_NoDuplicateRecommendations

====
